---- MODULE Spec2Model ----
(***************************************************************************)
(* Model of src/retirement_calculator.py: retirement_projection (the       *)
(* accumulation phase, the annuity sizing, the year loop) and the closing  *)
(* lines of the report written by the __main__ block.                      *)
(*                                                                         *)
(* Numbers.  Python floats are binary floating-point numbers.  A number is *)
(* modelled as a reduced fraction <<num, den>> with den > 0, and every     *)
(* arithmetic operation of the code is the exact operation followed by R,  *)
(* the rounding of the result.  The variable arith fixes the arithmetic of *)
(* a run: "float" rounds every result to the nearest number with Precision *)
(* significant bits, ties to even (the IEEE-754 rule of the code; the      *)
(* code's 53 bits are scaled down to Precision), "exact" does not round    *)
(* (the arithmetic the formulas of the code are written for).  ** is taken *)
(* to be correctly rounded, as every other operation is.                   *)
(*                                                                         *)
(* Inputs.  The __main__ block calls the function with one literal set of  *)
(* parameters; the model calls it with every parameter set drawn from the  *)
(* bounded sets Ages, Years, Savings and Rates, and writes the report's    *)
(* last line for whatever the call returned.                               *)
(***************************************************************************)
EXTENDS Integers, Sequences, FiniteSets

\* ------------------------------------------------------------- bounds
MaxAge == 3
MaxYears == 3
MaxSavings == 96
RateDen == 4
Precision == 4

\* ------------------------------------------------------------- fractions
None == <<>>

AbsInt(i) == IF i < 0 THEN -i ELSE i

RECURSIVE GCD(_, _)
GCD(a, b) == IF b = 0 THEN a ELSE GCD(b, a % b)

RECURSIVE Pow2(_)
Pow2(k) == IF k = 0 THEN 1 ELSE 2 * Pow2(k - 1)

\* the fraction p/q (q # 0) in lowest terms with a positive denominator
Frac(p, q) ==
    LET g == GCD(AbsInt(p), AbsInt(q))
        s == IF q < 0 THEN -1 ELSE 1
    IN  <<s * (p \div g), s * (q \div g)>>

Whole(i) == <<i, 1>>
Zero == Whole(0)
One == Whole(1)

IsZero(x) == x[1] = 0

ExactAdd(x, y) ==
    LET g == GCD(x[2], y[2])
    IN  Frac(x[1] * (y[2] \div g) + y[1] * (x[2] \div g), (x[2] \div g) * y[2])

ExactNeg(x) == <<-x[1], x[2]>>

ExactMul(x, y) ==
    LET g1 == GCD(AbsInt(x[1]), y[2])
        g2 == GCD(AbsInt(y[1]), x[2])
    IN  Frac((x[1] \div g1) * (y[1] \div g2), (x[2] \div g2) * (y[2] \div g1))

\* 1/x, x # 0
ExactInv(x) == IF x[1] < 0 THEN <<-x[2], -x[1]>> ELSE <<x[2], x[1]>>

RECURSIVE ExactPow(_, _)
\* x^k for an integer k; x # 0 when k < 0
ExactPow(x, k) ==
    IF k = 0 THEN One
    ELSE IF k < 0 THEN ExactInv(ExactPow(x, -k))
    ELSE ExactMul(x, ExactPow(x, k - 1))

\* |x| < 1
AbsLtOne(x) == AbsInt(x[1]) < x[2]

\* p/q (p >= 0, q > 0) to the nearest integer, ties to the even integer
RoundHalfEven(p, q) ==
    LET f == p \div q
        m == p % q
    IN  IF 2 * m > q \/ (2 * m = q /\ f % 2 = 1) THEN f + 1 ELSE f

RECURSIVE Scale(_, _, _)
\* <<p, q, e>> with p/q * 2^e the value of the argument and
\* 2^(Precision-1) <= p/q < 2^Precision; p > 0, q > 0
Scale(p, q, e) ==
    IF p >= Pow2(Precision) * q THEN Scale(p, 2 * q, e + 1)
    ELSE IF p < Pow2(Precision - 1) * q THEN Scale(2 * p, q, e - 1)
    ELSE <<p, q, e>>

\* x rounded to Precision significant bits, ties to even
Rnd(x) ==
    IF IsZero(x) THEN Zero
    ELSE LET s == Scale(AbsInt(x[1]), x[2], 0)
             m == RoundHalfEven(s[1], s[2])
             sg == IF x[1] < 0 THEN -1 ELSE 1
         IN  IF s[3] >= 0 THEN Frac(sg * m * Pow2(s[3]), 1)
             ELSE Frac(sg * m, Pow2(-s[3]))

\* ------------------------------------------------------------- state
VARIABLES
    arith,                \* "float" or "exact": the arithmetic of this run
    current_age, current_savings, retirement_age,
    years_in_retirement, annual_growth_rate,      \* the five parameters
    r, accumulation_years, nest_egg,              \* locals, lines 13-17
    n, annuity_factor,                            \* lines 22-23
    annual_withdrawal, monthly_withdrawal,        \* lines 24-25
    schedule, balance, year, interest,            \* lines 28-33
    res,                  \* <<>> until the function returns, then <<its dict>>
    error,                \* "" or the exception that ended the program
    final_line,           \* <<>> or the line the report prints last (88-91)
    pc

params == <<current_age, current_savings, retirement_age,
            years_in_retirement, annual_growth_rate>>
locals == <<r, accumulation_years, nest_egg, n, annuity_factor,
            annual_withdrawal, monthly_withdrawal, schedule, balance, year,
            interest>>
vars == <<arith, params, locals, res, error, final_line, pc>>

\* ------------------------------------------------------------- arithmetic
\* the value a float operation returns for the exact result x
R(x) == IF arith = "float" THEN Rnd(x) ELSE x

Add(x, y) == R(ExactAdd(x, y))
Sub(x, y) == R(ExactAdd(x, ExactNeg(y)))
Mul(x, y) == R(ExactMul(x, y))
\* x / y, y # 0
Div(x, y) == R(ExactMul(x, ExactInv(y)))
\* x ** k; x # 0 when k < 0
Pow(x, k) == R(ExactPow(x, k))

\* ------------------------------------------------------------- the code
\* line 17: current_savings * (1 + r) ** accumulation_years
NestEgg(savings, rate, years) == Mul(savings, Pow(Add(One, rate), years))

\* a slip in line 23: the division by r left out
AnnuityFactorUndivided(rate, k) == Sub(One, Pow(Add(One, rate), -k))

\* line 23: (1 - (1 + r) ** -n) / r
AnnuityFactor(rate, k) == Div(Sub(One, Pow(Add(One, rate), -k)), rate)

\* line 32: balance + interest - annual_withdrawal
NewBalance(b, i, w) == Sub(Add(b, i), w)

\* a slip in line 33: the age one year late
RowAgeOffByOne(ra, y) == ra + y

\* line 33, first field: retirement_age + year - 1
RowAge(ra, y) == ra + y - 1

\* a slip in line 33: the updated balance reported as the start balance
RowStartIsEnd(b, w) == b

\* line 33, second field: balance + annual_withdrawal (balance is already updated)
RowStart(b, w) == Add(b, w)

\* line 33: the row appended in an iteration, b the balance line 32 assigned
Row(ra, y, b, w) == <<RowAge(ra, y), RowStart(b, w), w, b>>

\* a slip in line 88: final_balance < 1, without abs
DepletedWithoutAbs(fb) == fb[1] < fb[2]

\* line 88: abs(final_balance) < 1
Depleted(fb) == AbsLtOne(fb)

\* line 45: f"{n:,.0f}", the amount to the nearest integer, ties to even
fmt(x) ==
    LET m == RoundHalfEven(AbsInt(x[1]), x[2])
    IN  IF x[1] < 0 THEN -m ELSE m

\* "0.0 cannot be raised to a negative power"
PowRaises(x, k) == IsZero(x) /\ k < 0

Ages == 1 .. MaxAge
Years == -1 .. MaxYears
Savings == {-1, 0, 3, MaxSavings}
Rates == {Frac(k, RateDen) : k \in (-2 * RateDen) .. RateDen}

Init ==
    /\ arith \in {"float", "exact"}
    /\ current_age \in Ages
    /\ retirement_age \in Ages
    /\ years_in_retirement \in Years
    /\ current_savings \in {R(Whole(s)) : s \in Savings}
    /\ annual_growth_rate \in {R(x) : x \in Rates}
    /\ r = None /\ nest_egg = None /\ annuity_factor = None
    /\ annual_withdrawal = None /\ monthly_withdrawal = None
    /\ balance = None /\ interest = None /\ schedule = <<>>
    /\ accumulation_years = 0 /\ n = 0 /\ year = 0
    /\ res = <<>> /\ error = "" /\ final_line = <<>>
    /\ pc = "accumulation"

Raise(e) ==
    /\ error' = e
    /\ pc' = "raised"

\* lines 13-17
Accumulation ==
    /\ pc = "accumulation"
    /\ ~PowRaises(Add(One, annual_growth_rate), retirement_age - current_age)
    /\ r' = annual_growth_rate
    /\ accumulation_years' = retirement_age - current_age
    /\ nest_egg' = NestEgg(current_savings, annual_growth_rate,
                           retirement_age - current_age)
    /\ pc' = "annuity"
    /\ UNCHANGED <<arith, params, n, annuity_factor, annual_withdrawal,
                   monthly_withdrawal, schedule, balance, year, interest,
                   res, error, final_line>>

\* line 17 raises ZeroDivisionError: 0.0 ** a negative number
AccumulationRaises ==
    /\ pc = "accumulation"
    /\ PowRaises(Add(One, annual_growth_rate), retirement_age - current_age)
    /\ r' = annual_growth_rate
    /\ accumulation_years' = retirement_age - current_age
    /\ Raise("ZeroDivisionError")
    /\ UNCHANGED <<arith, params, nest_egg, n, annuity_factor,
                   annual_withdrawal, monthly_withdrawal, schedule, balance,
                   year, interest, res, final_line>>

\* line 23 fails: 0.0 ** a negative number, or the division by r = 0
FactorRaises(rate, k) == PowRaises(Add(One, rate), -k) \/ IsZero(rate)

\* lines 22-23
Annuity ==
    /\ pc = "annuity"
    /\ ~FactorRaises(r, years_in_retirement)
    /\ n' = years_in_retirement
    /\ annuity_factor' = AnnuityFactor(r, years_in_retirement)
    /\ pc' = "withdrawal"
    /\ UNCHANGED <<arith, params, r, accumulation_years, nest_egg,
                   annual_withdrawal, monthly_withdrawal, schedule, balance,
                   year, interest, res, error, final_line>>

AnnuityRaises ==
    /\ pc = "annuity"
    /\ FactorRaises(r, years_in_retirement)
    /\ n' = years_in_retirement
    /\ Raise("ZeroDivisionError")
    /\ UNCHANGED <<arith, params, r, accumulation_years, nest_egg,
                   annuity_factor, annual_withdrawal, monthly_withdrawal,
                   schedule, balance, year, interest, res, final_line>>

\* lines 24-25
Withdrawal ==
    /\ pc = "withdrawal"
    /\ ~IsZero(annuity_factor)
    /\ annual_withdrawal' = Div(nest_egg, annuity_factor)
    /\ monthly_withdrawal' = Div(Div(nest_egg, annuity_factor), Whole(12))
    /\ pc' = "loop_init"
    /\ UNCHANGED <<arith, params, r, accumulation_years, nest_egg, n,
                   annuity_factor, schedule, balance, year, interest, res,
                   error, final_line>>

\* line 24 raises ZeroDivisionError: annuity_factor is 0
WithdrawalRaises ==
    /\ pc = "withdrawal"
    /\ IsZero(annuity_factor)
    /\ Raise("ZeroDivisionError")
    /\ UNCHANGED <<arith, params, locals, res, final_line>>

\* lines 28-30: the empty schedule, the starting balance, range(1, n + 1)
LoopInit ==
    /\ pc = "loop_init"
    /\ schedule' = <<>>
    /\ balance' = nest_egg
    /\ year' = 1
    /\ pc' = "loop"
    /\ UNCHANGED <<arith, params, r, accumulation_years, nest_egg, n,
                   annuity_factor, annual_withdrawal, monthly_withdrawal,
                   interest, res, error, final_line>>

\* lines 30-33: one iteration of the year loop
LoopBody ==
    /\ pc = "loop"
    /\ year <= n
    /\ interest' = Mul(balance, r)
    /\ balance' = NewBalance(balance, Mul(balance, r), annual_withdrawal)
    /\ schedule' = Append(schedule,
                          Row(retirement_age, year,
                              NewBalance(balance, Mul(balance, r), annual_withdrawal),
                              annual_withdrawal))
    /\ year' = year + 1
    /\ UNCHANGED <<arith, params, r, accumulation_years, nest_egg, n,
                   annuity_factor, annual_withdrawal, monthly_withdrawal,
                   res, error, final_line, pc>>

\* lines 35-41 and 57: the result record, bound to res by the caller
Return ==
    /\ pc = "loop"
    /\ year > n
    /\ res' = <<[accumulation_years |-> accumulation_years,
                 nest_egg_at_retirement |-> nest_egg,
                 annual_withdrawal |-> annual_withdrawal,
                 monthly_withdrawal |-> monthly_withdrawal,
                 schedule |-> schedule]>>
    /\ pc' = "report"
    /\ UNCHANGED <<arith, params, locals, error, final_line>>

\* lines 87-91: the line after the table
Report ==
    /\ pc = "report"
    /\ res[1].schedule # <<>>
    /\ LET final_balance == res[1].schedule[Len(res[1].schedule)][4]
       IN  final_line' = IF Depleted(final_balance)
                         THEN <<"depleted">>
                         ELSE <<"remaining", fmt(final_balance)>>
    /\ pc' = "done"
    /\ UNCHANGED <<arith, params, locals, res, error>>

\* line 87 raises IndexError: the schedule is empty
ReportRaises ==
    /\ pc = "report"
    /\ res[1].schedule = <<>>
    /\ Raise("IndexError")
    /\ UNCHANGED <<arith, params, locals, res, final_line>>

Next ==
    \/ Accumulation
    \/ AccumulationRaises
    \/ Annuity
    \/ AnnuityRaises
    \/ Withdrawal
    \/ WithdrawalRaises
    \/ LoopInit
    \/ LoopBody
    \/ Return
    \/ Report
    \/ ReportRaises

Spec == Init /\ [][Next]_vars

\* ------------------------------------------------------------- claims
\* the inputs the specification calls valid
Valid ==
    /\ retirement_age > current_age
    /\ years_in_retirement >= 1
    /\ current_savings[1] >= 0

Returned == res # <<>>
Terminated == pc \in {"raised", "done"}
\* the schedule of the returned record, and the fields of its rows
Rows == res[1].schedule
RowIdx == 1 .. Len(Rows)
AgeOf(i) == Rows[i][1]
StartOf(i) == Rows[i][2]
WithdrawalOf(i) == Rows[i][3]
EndOf(i) == Rows[i][4]
OnePlusRate == ExactAdd(One, annual_growth_rate)
Minus(x, y) == ExactAdd(x, ExactNeg(y))

\* C1: for valid inputs with a nonzero rate, every row of the returned
\* schedule has end_balance = start_balance * (1 + rate) - withdrawal.
\* Stated of the runs in exact arithmetic, where no tolerance is needed.
C1_RowRecurrence ==
    (arith = "exact" /\ Valid /\ ~IsZero(annual_growth_rate) /\ Returned) =>
        \A i \in RowIdx :
            EndOf(i) = Minus(ExactMul(StartOf(i), OnePlusRate), WithdrawalOf(i))

\* C2: chaining: the start_balance of row i+1 is the end_balance of row i.
C2_Chaining ==
    (arith = "exact" /\ Returned) =>
        \A i \in RowIdx : i < Len(Rows) => StartOf(i + 1) = EndOf(i)

\* C3: the start_balance of the first row is nest_egg_at_retirement.
C3_FirstStartIsNestEgg ==
    (arith = "exact" /\ Returned /\ Rows # <<>>) =>
        StartOf(1) = res[1].nest_egg_at_retirement

\* C4: with rate 0 and otherwise valid inputs the function does not fail; it
\* returns annual_withdrawal = nest_egg / years_in_retirement and rows with
\* end_balance = start_balance - withdrawal.
C4_ZeroRateStraightLine ==
    (Valid /\ IsZero(annual_growth_rate) /\ Terminated) =>
        /\ Returned
        /\ res[1].annual_withdrawal =
               Div(res[1].nest_egg_at_retirement, Whole(years_in_retirement))
        /\ \A i \in RowIdx : EndOf(i) = Sub(StartOf(i), WithdrawalOf(i))

\* C5: retirement_age <= current_age ends in InvalidConfiguration, and no
\* result record and no schedule is ever returned for such inputs.
C5_AgeOrderRejected ==
    (retirement_age <= current_age) =>
        /\ ~Returned
        /\ Terminated => error = "InvalidConfiguration"

\* C6: years_in_retirement < 1 or current_savings < 0 ends in
\* InvalidConfiguration, raised before nest_egg, annual_withdrawal or any
\* schedule row is computed.
C6_ValidatedBeforeComputation ==
    (years_in_retirement < 1 \/ current_savings[1] < 0) =>
        /\ nest_egg = None /\ annual_withdrawal = None /\ schedule = <<>>
        /\ ~Returned
        /\ Terminated => error = "InvalidConfiguration"

\* C7 as claimed: for valid inputs with a nonzero rate the end_balance of the
\* last row the year loop produced is below 1 in absolute value, and
\* years_in_retirement = 1 yields exactly one row.
C7_DepletedBelowOne ==
    (Valid /\ ~IsZero(annual_growth_rate) /\ Returned) =>
        /\ Rows # <<>>
        /\ AbsLtOne(EndOf(Len(Rows)))
        /\ years_in_retirement = 1 => Len(Rows) = 1

\* C7 as amended: in exact arithmetic, for valid inputs with a nonzero rate,
\* the end_balance of the last row of a returned schedule is exactly 0, and
\* years_in_retirement = 1 yields exactly one row.
C7_DepletedExactly ==
    (arith = "exact" /\ Valid /\ ~IsZero(annual_growth_rate) /\ Returned) =>
        /\ Rows # <<>>
        /\ IsZero(EndOf(Len(Rows)))
        /\ years_in_retirement = 1 => Len(Rows) = 1

C7_Witness ==
    /\ arith = "exact" /\ Valid /\ ~IsZero(annual_growth_rate) /\ Returned
    /\ Len(Rows) = MaxYears
    /\ ~IsZero(res[1].nest_egg_at_retirement)
    /\ ~IsZero(EndOf(1))

\* C8: for valid inputs the returned schedule has years_in_retirement rows,
\* with ages retirement_age, retirement_age + 1, ... in this order.
C8_LengthAndAges ==
    (Valid /\ Returned) =>
        /\ Len(Rows) = years_in_retirement
        /\ \A i \in RowIdx : AgeOf(i) = retirement_age + i - 1

C8_Witness ==
    Valid /\ Returned /\ Len(Rows) = MaxYears /\ retirement_age = MaxAge

\* C9: the last line of the report states depletion iff the end_balance of
\* the last row is below 1 in absolute value, and otherwise is the remaining
\* balance; no line is printed before the report ends.
C9_FinalLine ==
    /\ pc # "done" => final_line = <<>>
    /\ pc = "done" =>
        LET fb == EndOf(Len(Rows))
        IN  /\ (final_line = <<"depleted">>) <=> (-fb[2] < fb[1] /\ fb[1] < fb[2])
            /\ (final_line # <<"depleted">>) =>
                   /\ Len(final_line) = 2
                   /\ final_line[1] = "remaining"
                   /\ 2 * AbsInt(final_line[2] * fb[2] - fb[1]) <= fb[2]

C9_Witness ==
    /\ pc = "done"
    /\ final_line # <<"depleted">>
    /\ EndOf(Len(Rows))[1] < 0

\* C10: in exact arithmetic the start_balance of a row is the balance after
\* the year's interest and before its withdrawal: row 1 starts at
\* nest_egg * (1 + rate), row i+1 at end_balance(i) * (1 + rate), and each row
\* has end_balance = start_balance - withdrawal; in every run each row's
\* withdrawal is the annual_withdrawal of the record.
C10_StartIsAfterInterest ==
    Returned =>
        /\ \A i \in RowIdx : WithdrawalOf(i) = res[1].annual_withdrawal
        /\ arith = "exact" =>
            \A i \in RowIdx :
                /\ StartOf(i) = ExactMul(IF i = 1 THEN res[1].nest_egg_at_retirement
                                                  ELSE EndOf(i - 1),
                                         OnePlusRate)
                /\ EndOf(i) = Minus(StartOf(i), WithdrawalOf(i))

C10_Witness ==
    /\ arith = "exact" /\ Returned /\ Len(Rows) = MaxYears
    /\ ~IsZero(res[1].nest_egg_at_retirement)
    /\ StartOf(2) # EndOf(1)
====
